---------------------------- MODULE Spec2Model ----------------------------
(***************************************************************************)
(* A model of carto::geocoding::RevGeocoder (RevGeocoder.cpp), the reverse *)
(* geocoding engine of the mobile SDK, and of Layer::setComponents         *)
(* (Layer.cpp).                                                            *)
(*                                                                         *)
(* Numbers.  TLC's integers are 32 bits wide, so the widths of the program *)
(* are scaled down and kept as widths: an entity id half-word has IdBits   *)
(* bits (32 in the program), a float has MantBits significant bits (24 in  *)
(* the program) and every real number is held as an integer count of       *)
(* 2^-FracBits, the smallest step of the scaled float format.              *)
(***************************************************************************)
EXTENDS Integers, Sequences, FiniteSets, TLC

\* ------------------------------------------------------------------ bounds
IdBits == 3
MantBits == 3
FracBits == 4
MaxDatabases == 2
MaxQueryCounter == 2

\* -------------------------------------------------------------- arithmetic
RECURSIVE Pow2(_)
Pow2(k) == IF k <= 0 THEN 1 ELSE 2 * Pow2(k - 1)

RECURSIVE BitLen(_)
BitLen(n) == IF n <= 0 THEN 0 ELSE 1 + BitLen(n \div 2)

Abs(x) == IF x < 0 THEN -x ELSE x

Sgn(x) == IF x < 0 THEN -1 ELSE IF x > 0 THEN 1 ELSE 0

\* 1.0 in units of 2^-FracBits.
One == Pow2(FracBits)

\* The float nearest to the rational num/den (num >= 0, den > 0), ties to even:
\* a float keeps MantBits significant bits.
RoundRat(num, den) ==
    LET q0 == num \div den
        len == BitLen(q0)
        ulp == IF len <= MantBits THEN 1 ELSE Pow2(len - MantBits)
        k == num \div (den * ulp)
        rem == num - k * den * ulp
    IN  IF 2 * rem < den * ulp THEN k * ulp
        ELSE IF 2 * rem > den * ulp THEN (k + 1) * ulp
        ELSE IF k % 2 = 0 THEN k * ulp ELSE (k + 1) * ulp

\* Float values: a finite number, a NaN or an infinity (v is its sign).
Num(v) == [k |-> "num", v |-> v]
NaN == [k |-> "nan", v |-> 0]
Inf(s) == [k |-> "inf", v |-> s]

\* static_cast<float>(double): a double holds every value of the model exactly.
F32(x) == Num(Sgn(x) * RoundRat(Abs(x), 1))

\* float / float.
FDiv(a, b) ==
    IF a.k = "nan" \/ b.k = "nan" THEN NaN
    ELSE IF a.k = "inf" THEN (IF b.k = "inf" THEN NaN
                              ELSE Inf(a.v * (IF b.v < 0 THEN -1 ELSE 1)))
    ELSE IF b.k = "inf" THEN Num(0)
    ELSE IF b.v = 0 THEN (IF a.v = 0 THEN NaN ELSE Inf(Sgn(a.v)))
    ELSE Num(Sgn(a.v) * Sgn(b.v) * RoundRat(Abs(a.v) * One, Abs(b.v)))

\* float - float.
FSub(a, b) ==
    IF a.k = "nan" \/ b.k = "nan" THEN NaN
    ELSE IF a.k = "inf" THEN (IF b.k = "inf" /\ b.v = a.v THEN NaN ELSE a)
    ELSE IF b.k = "inf" THEN Inf(-b.v)
    ELSE F32(a.v - b.v)

\* a > b on floats: false when either is a NaN.
FGt(a, b) ==
    /\ a.k # "nan"
    /\ b.k # "nan"
    /\ IF a.k = "inf" THEN a.v = 1 /\ ~(b.k = "inf" /\ b.v = 1)
       ELSE IF b.k = "inf" THEN b.v = -1
       ELSE a.v > b.v

\* The integer nearest to the square root of n (cglib::length's sqrt).
RSqrt(n) ==
    CHOOSE s \in 0..(n + 1) :
        /\ 4 * n < (2 * s + 1) * (2 * s + 1)
        /\ (s = 0 \/ 4 * n >= (2 * s - 1) * (2 * s - 1))

\* cglib::length of a 2-vector.
Length(v) == RSqrt(v[1] * v[1] + v[2] * v[2])

\* a | b on unsigned integers.
RECURSIVE BitOr(_, _)
BitOr(a, b) ==
    IF a = 0 THEN b
    ELSE IF b = 0 THEN a
    ELSE (IF a % 2 = 1 \/ b % 2 = 1 THEN 1 ELSE 0) + 2 * BitOr(a \div 2, b \div 2)

\* ----------------------------------------------------------------- strings
\* A string is a sequence of one-character strings.
Digits == <<"0", "1", "2", "3", "4", "5", "6", "7", "8", "9">>

\* boost::lexical_cast<std::string> of an unsigned integer.
RECURSIVE DecStr(_)
DecStr(n) == IF n < 10 THEN <<Digits[n + 1]>> ELSE DecStr(n \div 10) \o <<Digits[(n % 10) + 1]>>


\* --------------------------------------------------------------- the stores
\* A metadata value is a comma-separated list of fields; a field is numeric
\* (lexical_cast<double> succeeds) or not.
Tok(v) == [ok |-> TRUE, v |-> v]
BadTok == [ok |-> FALSE, v |-> 0]

\* A metadata lookup returns no row or the fields of the first row.
NoRow == [present |-> FALSE, fields |-> <<>>]
Row(fields) == [present |-> TRUE, fields |-> fields]

\* Address::Type values of the model.
Types == {"street", "house", "region"}
\* The types the query scenarios filter by.
QueryTypes == {"house"}

\* A features blob that cannot be decoded.
Corrupt == <<>>

\* No house number specification (a NULL housenumbers column).
Null == [null |-> TRUE, points |-> <<>>]
\* A house number specification: the interpolator yields one address per point.
HouseNumbers(points) == [null |-> FALSE, points |-> points]

\* The width of a quad cell, in coordinate steps, and the cells per row.
CellSize == 8
CellsPerRow == 4

\* The quad index key of the cell holding point p.
CellOf(p) == 1 + (p[1] \div CellSize) + CellsPerRow * (p[2] \div CellSize)

\* A bounded store around the origin: a row whose house numbers interpolate
\* to (8,0), (9,0) and (12,0), and a street point at (0,0).
StoreA ==
    [name |-> "A",
     origin |-> Row(<<Tok(0), Tok(0)>>),
     bounds |-> Row(<<Tok(0), Tok(0), Tok(12), Tok(10)>>),
     entities |-> <<
        [id |-> 2, quadindex |-> CellOf(<<8, 0>>), type |-> "house",
         features |-> <<8, 0>>, housenumbers |-> HouseNumbers(<< <<8, 0>>, <<9, 0>>, <<12, 0>> >>)],
        [id |-> 1, quadindex |-> CellOf(<<0, 0>>), type |-> "street",
         features |-> <<0, 0>>, housenumbers |-> Null] >>,
     unloadable |-> {}]

\* An unbounded store with origin (28,28) and one street point at its origin.
StoreB ==
    [name |-> "B",
     origin |-> Row(<<Tok(28), Tok(28)>>),
     bounds |-> NoRow,
     entities |-> <<
        [id |-> 1, quadindex |-> CellOf(<<28, 28>>), type |-> "street",
         features |-> <<0, 0>>, housenumbers |-> Null] >>,
     unloadable |-> {}]

\* A store whose bounds metadata has three fields.
StoreC ==
    [name |-> "C",
     origin |-> NoRow,
     bounds |-> Row(<<Tok(0), Tok(0), Tok(10)>>),
     entities |-> <<>>,
     unloadable |-> {}]

\* An unbounded store with faults: a street point at (0,0) whose address
\* cannot be loaded, and far from it a street point at (28,24) followed by a
\* row whose features cannot be decoded.
StoreD ==
    [name |-> "D",
     origin |-> NoRow,
     bounds |-> NoRow,
     entities |-> <<
        [id |-> 1, quadindex |-> CellOf(<<0, 0>>), type |-> "street",
         features |-> <<0, 0>>, housenumbers |-> Null],
        [id |-> 2, quadindex |-> CellOf(<<28, 24>>), type |-> "street",
         features |-> <<28, 24>>, housenumbers |-> Null],
        [id |-> 3, quadindex |-> CellOf(<<28, 28>>), type |-> "house",
         features |-> Corrupt, housenumbers |-> Null] >>,
     unloadable |-> {1}]

Stores == {StoreA, StoreB, StoreC}

\* The query points, the radii (floats), the languages of the model.
Points == {<<0, 0>>, <<28, 28>>}
Radii == {0, 3 * One}
Languages == {"en", "et"}

\* ------------------------------------------------------------ the LRU cache
\* cache::lru_cache: entries most recently used first, at most `size` of them.
AddressCacheSize == 2
QueryCacheSize == 1

CacheIndex(cache, key) ==
    IF \E i \in 1..Len(cache) : cache[i].key = key
    THEN CHOOSE i \in 1..Len(cache) : cache[i].key = key
    ELSE 0

CacheWithout(cache, i) == SubSeq(cache, 1, i - 1) \o SubSeq(cache, i + 1, Len(cache))

\* lru_cache::read: on a hit the entry becomes the most recently used.
CacheRead(cache, key) ==
    LET i == CacheIndex(cache, key)
    IN  IF i = 0 THEN [found |-> FALSE, cache |-> cache, value |-> <<>>]
        ELSE [found |-> TRUE, cache |-> <<cache[i]>> \o CacheWithout(cache, i),
              value |-> cache[i].value]

\* lru_cache::put: insert or replace as most recently used, evict the least.
CachePut(cache, size, key, value) ==
    LET i == CacheIndex(cache, key)
        rest == IF i = 0 THEN cache ELSE CacheWithout(cache, i)
        all == <<[key |-> key, value |-> value]>> \o rest
    IN  IF Len(all) > size THEN SubSeq(all, 1, size) ELSE all

\* lru_cache::clear.
CacheClear(cache) == <<>>


\* ------------------------------------------------------------------- state
VARIABLES
    databases,                  \* _databases: the registered Database records
    radius,                     \* _radius (float)
    language,                   \* _language
    enabledFilters,             \* _enabledFilters: a vector of Address::Type
    addressCache,               \* _addressCache
    queryCache,                 \* _queryCache
    entityQueryCounter,         \* _entityQueryCounter
    previousEntityQueryCounter, \* _previousEntityQueryCounter
    mutexOwner,                 \* _mutex: the thread holding it
    mutexCount,                 \* _mutex: how often its owner holds it
    pc,                         \* each caller thread's place in its call
    local,                      \* each caller thread's call and its locals
    ret,                        \* the last call's outcome
    lastEnabled,                \* per type, the last setFilterEnabled argument
    pure                        \* a part modelled alone: a function's inputs and result, a Layer

engineVars == <<databases, radius, language, enabledFilters, addressCache,
                queryCache, entityQueryCounter, previousEntityQueryCounter>>

\* --------------------------------------------------------------- geometry
\* wgs84Meters: metres per coordinate step along longitude and latitude at p;
\* a step of longitude shrinks away from the equator.
Wgs84Meters(p) == <<IF Abs(p[2]) < 10 THEN One \div 4 ELSE One \div 8, One \div 4>>

\* cglib::bbox2::nearest_point: p clamped to the box.
Clamp(x, lo, hi) == IF x < lo THEN lo ELSE IF x > hi THEN hi ELSE x
NearestPoint(bounds, p) ==
    <<Clamp(p[1], bounds.min[1], bounds.max[1]), Clamp(p[2], bounds.min[2], bounds.max[2])>>

\* The metric distance from query point p to point q, in the local scale at p.
MetricDist(p, q) ==
    LET lngLatMeters == Wgs84Meters(p)
        diff == <<q[1] - p[1], q[2] - p[2]>>
    IN  Length(<<diff[1] * lngLatMeters[1], diff[2] * lngLatMeters[2]>>)

\* findAddresses, the bounding prefilter: the distance to the envelope.
PrefilterDist(database, p) == MetricDist(p, NearestPoint(database.bounds, p))

\* A prefilter that skips nothing.
NeverSkips(database, p, r) == FALSE

\* A prefilter that skips a database at the radius too (dist >= _radius).
SkipsAtRadius(database, p, r) ==
    /\ database.bounds.present
    /\ r.k # "nan"
    /\ ~FGt(r, Num(PrefilterDist(database, p)))

\* findAddresses: the database is skipped (dist > _radius, a double comparison).
PrefilterSkips(database, p, r) ==
    /\ database.bounds.present
    /\ FGt(Num(PrefilterDist(database, p)), r)

\* ------------------------------------------------------------------ import
AllNumeric(fields, n) == \A i \in 1..n : fields[i].ok

\* getOrigin: (0,0) without a row; at() or lexical_cast throws on a short or
\* non-numeric value; fields past the second are not looked at.
GetOrigin(store) ==
    IF ~store.origin.present THEN [ok |-> TRUE, value |-> <<0, 0>>]
    ELSE IF Len(store.origin.fields) < 2 \/ ~AllNumeric(store.origin.fields, 2)
         THEN [ok |-> FALSE, value |-> <<0, 0>>]
    ELSE [ok |-> TRUE, value |-> <<store.origin.fields[1].v, store.origin.fields[2].v>>]

\* getBounds: no bounds without a row; throws as getOrigin does.
NoBounds == [present |-> FALSE, min |-> <<0, 0>>, max |-> <<0, 0>>]
GetBounds(store) ==
    IF ~store.bounds.present THEN [ok |-> TRUE, value |-> NoBounds]
    ELSE IF Len(store.bounds.fields) < 4 \/ ~AllNumeric(store.bounds.fields, 4)
         THEN [ok |-> FALSE, value |-> NoBounds]
    ELSE [ok |-> TRUE,
          value |-> [present |-> TRUE,
                     min |-> <<store.bounds.fields[1].v, store.bounds.fields[2].v>>,
                     max |-> <<store.bounds.fields[3].v, store.bounds.fields[4].v>>]]

\* A Database record whose id does not count the registered databases.
DatabaseNamedZero(store, n) ==
    [id |-> <<"d", "b">> \o DecStr(0),
     db |-> store,
     bounds |-> GetBounds(store).value,
     origin |-> GetOrigin(store).value]

\* import: the Database record built for a store, as the n-th entry (from 0).
NewDatabase(store, n) ==
    [id |-> <<"d", "b">> \o DecStr(n),
     db |-> store,
     bounds |-> GetBounds(store).value,
     origin |-> GetOrigin(store).value]

\* ------------------------------------------------- geometry-info resolution
\* A shift one bit short.
ShiftShort(k) == (k * Pow2(IdBits - 1)) % Pow2(2 * IdBits)

\* (k << IdBits) on a word of 2*IdBits bits.
ShiftLeft(k) == (k * Pow2(IdBits)) % Pow2(2 * IdBits)

\* findGeometryInfo: the packed id of the interpolated address at 1-based index k.
EncodedId(k, entityId) == BitOr(ShiftLeft(k), entityId)

\* The point converter the quad index hands to the resolver.
PointConverter(q) == q

\* findGeometryInfo, per row: the id is read as an unsigned int; one GeometryInfo
\* per interpolated address, or one for the row.
RowGeomInfos(database, row) ==
    LET entityId == row.id % Pow2(IdBits)
        place(pos) == PointConverter(<<database.origin[1] + pos[1], database.origin[2] + pos[2]>>)
    IN  IF ~row.housenumbers.null
        THEN [i \in 1..Len(row.housenumbers.points) |->
                [id |-> EncodedId(i, entityId), geometry |-> place(row.housenumbers.points[i])]]
        ELSE <<[id |-> entityId, geometry |-> place(row.features)]>>

\* findGeometryInfo, per row: the FeatureReader throws on the row's features.
RowThrows(row) == row.features = Corrupt

\* A loop over the rows that catches what a row throws.
QuerySwallows(rows) == FALSE

\* findGeometryInfo, the loop over the rows: an exception from a row leaves it.
QueryThrows(rows) == \E i \in 1..Len(rows) : RowThrows(rows[i])

RECURSIVE Flatten(_)
Flatten(seqs) == IF seqs = <<>> THEN <<>> ELSE Head(seqs) \o Flatten(Tail(seqs))

\* findGeometryInfo: the text of the store query.
BuildSql(quadIndices, filters) == [quad |-> quadIndices, filter |-> filters]

\* The rows the store returns for a query: quadindex in the list and, when a
\* type filter is given, the type among the filtered types.
StoreQuery(store, sql) ==
    SelectSeq(store.entities,
              LAMBDA row : /\ \E i \in 1..Len(sql.quad) : sql.quad[i] = row.quadindex
                           /\ (sql.filter = <<>> \/
                               \E i \in 1..Len(sql.filter) : sql.filter[i] = row.type))

\* A resolver that stores the rows decoded so far when a row throws.
PutPartial(cache, queryKey, partial) == CachePut(cache, QueryCacheSize, queryKey, partial)

\* findGeometryInfo when a row throws: _queryCache.put stands after the loop
\* and is not reached, the cache stays as the probe left it.
QueryCacheAfterThrow(cache, queryKey, partial) == cache

\* A resolver that goes to the store without probing the cache.
QueriesAlways(e, database, quadIndices) ==
    LET sql == BuildSql(quadIndices, enabledFilters)
        queryKey == [db |-> database.id, sql |-> sql]
        rows == StoreQuery(database.db, sql)
        geomInfos == Flatten([i \in 1..Len(rows) |->
                                IF RowThrows(rows[i]) THEN <<>>
                                ELSE RowGeomInfos(database, rows[i])])
    IN  [e |-> [e EXCEPT !.qc = CachePut(e.qc, QueryCacheSize, queryKey, geomInfos),
                         !.cnt = @ + 1,
                         !.queries = @ \cup {queryKey}],
         geomInfos |-> geomInfos]

\* findGeometryInfo: the cache probe, and on a miss the store query, the rows'
\* GeometryInfos, the counter and the cache fill; an exception from a row
\* leaves the loop before the counter and the cache fill.  e holds the mutable
\* members the call works on.
FindGeometryInfo(e, database, quadIndices) ==
    LET sql == BuildSql(quadIndices, enabledFilters)
        queryKey == [db |-> database.id, sql |-> sql]
        hit == CacheRead(e.qc, queryKey)
        rows == StoreQuery(database.db, sql)
        geomInfos == Flatten([i \in 1..Len(rows) |->
                                IF RowThrows(rows[i]) THEN <<>>
                                ELSE RowGeomInfos(database, rows[i])])
    IN  IF hit.found
        THEN [e |-> [e EXCEPT !.qc = hit.cache, !.qhits = @ \cup {queryKey}],
              geomInfos |-> hit.value]
        ELSE IF QueryThrows(rows)
        THEN [e |-> [e EXCEPT !.qc = QueryCacheAfterThrow(hit.cache, queryKey, geomInfos),
                              !.threw = TRUE, !.failed = @ \cup {queryKey}],
              geomInfos |-> <<>>]
        ELSE [e |-> [e EXCEPT !.qc = CachePut(hit.cache, QueryCacheSize, queryKey, geomInfos),
                              !.cnt = @ + 1,
                              !.queries = @ \cup {queryKey}],
              geomInfos |-> geomInfos]


\* ---------------------------------------------------------- the quad index
RECURSIVE SortedSeq(_)
SortedSeq(S) ==
    IF S = {} THEN <<>>
    ELSE LET m == CHOOSE x \in S : \A y \in S : x <= y
         IN  <<m>> \o SortedSeq(S \ {m})

\* The coordinate steps a radius of r units spans along an axis of scale m.
StepsOf(r, m) == (r + m - 1) \div m

WorldMax == CellSize * CellsPerRow - 1

\* The cells that meet the square of half-width r around p.
CellsAround(p, r) ==
    LET m == Wgs84Meters(p)
        xs == Clamp(p[1] - StepsOf(r, m[1]), 0, WorldMax)..Clamp(p[1] + StepsOf(r, m[1]), 0, WorldMax)
        ys == Clamp(p[2] - StepsOf(r, m[2]), 0, WorldMax)..Clamp(p[2] + StepsOf(r, m[2]), 0, WorldMax)
    IN  {CellOf(<<x, y>>) : x \in xs, y \in ys}

\* QuadIndex::findGeometries: the batches of quad indices it asks the resolver
\* for: the cells within reach of p, none when r < 0.
QuadProbes(p, r) ==
    IF r.k = "num" /\ r.v >= 0
    THEN << SortedSeq(CellsAround(p, r.v)) >>
    ELSE << >>

\* QuadIndex::findGeometries: the resolver is called once per batch.
RECURSIVE ProbeAll(_, _, _, _)
ProbeAll(e, database, probes, i) ==
    IF i > Len(probes) THEN [e |-> e, geomInfos |-> <<>>]
    ELSE LET one == FindGeometryInfo(e, database, probes[i])
             more == ProbeAll(one.e, database, probes, i + 1)
         IN  IF one.e.threw THEN one
             ELSE [e |-> more.e, geomInfos |-> one.geomInfos \o more.geomInfos]

\* QuadIndex::findGeometries: every resolved geometry within r of p, with its
\* distance, in the order resolved.
WithinRadius(p, r, geomInfos) ==
    LET near == SelectSeq(geomInfos,
                          LAMBDA g : /\ r.k # "nan"
                                     /\ ~FGt(Num(MetricDist(p, g.geometry)), r))
    IN  [i \in 1..Len(near) |-> <<near[i].id, MetricDist(p, near[i].geometry)>>]

\* An index that keeps its contract; an index made to return given results.
Contract == [use |-> FALSE, results |-> <<>>]
Forced(results) == [use |-> TRUE, results |-> results]

FindGeometries(e, database, p, r, forced) ==
    LET probed == ProbeAll(e, database, QuadProbes(p, r), 1)
    IN  [e |-> probed.e,
         results |-> IF probed.e.threw THEN <<>>
                     ELSE IF forced.use THEN forced.results
                     ELSE WithinRadius(p, r, probed.geomInfos)]

\* ------------------------------------------------------------ findAddresses
\* findAddresses: rank = 1.0f - static_cast<float>(distance) / _radius.
RankOf(dist, r) == FSub(Num(One), FDiv(F32(dist), r))

\* A test that admits every rank but the non-positive numbers.
AdmitsUnlessNonPositive(rank) == ~FGt(Num(0), rank) /\ rank # Num(0)

\* A test that admits the rank 0 too.
AdmitsZero(rank) == FGt(rank, Num(0)) \/ rank = Num(0)

\* findAddresses: rank > 0.
RankAdmits(rank) == FGt(rank, Num(0))

\* An address key without the database id.
KeyWithoutDatabase(database, id) == DecStr(id)

\* findAddresses: addrKey = database.id + "_" + lexical_cast<string>(entity id).
AddrKey(database, id) == database.id \o <<"_">> \o DecStr(id)

\* Address::loadFromDB: the address of an entity of a store, its text in the
\* given language, its position translated by the database origin.
LoadFromDB(database, id, lang) ==
    [store |-> database.db.name, origin |-> database.origin, id |-> id, language |-> lang]

\* Address::loadFromDB throws: the row of the entity cannot be loaded.
LoadThrows(database, id) == (id % Pow2(IdBits)) \in database.db.unloadable

\* A list that takes a new pair at its front.
EmplacedFront(addresses, pair) == <<pair>> \o addresses

\* findAddresses: addresses.emplace_back(address, rank).
Emplaced(addresses, pair) == Append(addresses, pair)

\* findAddresses, the loop over one database's results; an exception from
\* loadFromDB leaves it before the cache fill.
RECURSIVE ResolveResults(_, _, _, _)
ResolveResults(e, database, results, i) ==
    IF i > Len(results) \/ e.threw THEN e
    ELSE LET rank == RankOf(results[i][2], radius)
             addrKey == AddrKey(database, results[i][1])
             hit == CacheRead(e.ac, addrKey)
             address == IF hit.found THEN hit.value
                        ELSE LoadFromDB(database, results[i][1], language)
             filled == IF hit.found THEN hit.cache
                       ELSE CachePut(hit.cache, AddressCacheSize, addrKey, address)
         IN  IF ~RankAdmits(rank) THEN ResolveResults(e, database, results, i + 1)
             ELSE IF ~hit.found /\ LoadThrows(database, results[i][1])
             THEN [e EXCEPT !.threw = TRUE, !.areads = @ \cup {addrKey}]
             ELSE ResolveResults(
                    [e EXCEPT !.ac = filled,
                              !.addresses = Emplaced(@, [address |-> address, rank |-> rank]),
                              !.admitted = Append(@, results[i]),
                              !.areads = @ \cup {addrKey},
                              !.loads = IF hit.found THEN @ ELSE @ \cup {addrKey}],
                    database, results, i + 1)

\* findAddresses, the loop over the databases; forced[i] is the index of the
\* i-th database.  An exception ends the loop.
RECURSIVE FindInDatabases(_, _, _, _)
FindInDatabases(e, p, forced, i) ==
    IF i > Len(databases) \/ e.threw THEN e
    ELSE IF PrefilterSkips(databases[i], p, radius)
         THEN FindInDatabases(e, p, forced, i + 1)
    ELSE LET started == [e EXCEPT !.prev = e.cnt, !.visited = @ \cup {i}]
             found == FindGeometries(started, databases[i], p, radius, forced[i])
             resolved == ResolveResults(found.e, databases[i], found.results, 1)
         IN  FindInDatabases(resolved, p, forced, i + 1)

\* The mutable members findAddresses works on, and what a call did: the index
\* results admitted, the store queries completed and failed, the cache keys
\* hit and read, the addresses loaded, the databases not skipped, whether an
\* exception ended it.
Members(ac, qc, cnt, prev) ==
    [ac |-> ac, qc |-> qc, cnt |-> cnt, prev |-> prev, addresses |-> <<>>,
     admitted |-> <<>>, queries |-> {}, failed |-> {}, qhits |-> {}, areads |-> {},
     loads |-> {}, visited |-> {}, threw |-> FALSE]

AllContract == [i \in 1..Len(databases) |-> Contract]

\* findAddresses(lng, lat) on the engine as it is.
FindAddresses(p, forced) ==
    FindInDatabases(Members(addressCache, queryCache, entityQueryCounter,
                            previousEntityQueryCounter), p, forced, 1)

\* findAddresses(lng, lat) on an engine with the same configuration and both
\* caches empty.
FindAddressesCold(p) ==
    FindInDatabases(Members(<<>>, <<>>, 0, 0), p, AllContract, 1)


\* -------------------------------------------------------------- operations
DefaultRadius == Num(3 * One)
DefaultLanguage == "en"

\* The caller threads.
Threads == {"t1", "t2"}
NoThread == "none"
NoCall == [op |-> "none", arg |-> <<>>, i |-> 0, results |-> <<>>, addresses |-> <<>>,
           result |-> <<>>, threw |-> FALSE, reads |-> {}]
NoPure == [pc |-> "none"]

\* The outcome of the last call: a value returned (for findAddresses with the
\* index results its pairs came from and whether each cache served it), nothing
\* (a void call), or an exception.
NoHits == [query |-> FALSE, address |-> FALSE]
Returned(op, arg, result) ==
    [op |-> op, arg |-> arg, result |-> result, index |-> <<>>, admitted |-> <<>>,
     hits |-> NoHits, threw |-> FALSE]
Void == Returned("void", <<>>, TRUE)
Threw(op, arg) == [Returned(op, arg, FALSE) EXCEPT !.threw = TRUE]

vars == <<databases, radius, language, enabledFilters, addressCache, queryCache,
          entityQueryCounter, previousEntityQueryCounter, mutexOwner, mutexCount,
          pc, local, ret, lastEnabled, pure>>

threadVars == <<mutexOwner, mutexCount, pc, local>>

\* The engine as constructed, no call under way.
EngineInit ==
    /\ databases = <<>>
    /\ radius = DefaultRadius
    /\ language = DefaultLanguage
    /\ enabledFilters = <<>>
    /\ addressCache = <<>>
    /\ queryCache = <<>>
    /\ entityQueryCounter = 0
    /\ previousEntityQueryCounter = 0
    /\ mutexOwner = NoThread
    /\ mutexCount = 0
    /\ pc = [t \in Threads |-> "idle"]
    /\ local = [t \in Threads |-> NoCall]
    /\ ret = Void
    /\ lastEnabled = [type \in Types |-> FALSE]

Init == EngineInit /\ pure = NoPure

\* Metadata that is always taken as well-formed.
AlwaysOk(store) == TRUE

\* import: getBounds and getOrigin return.
MetadataOk(store) == GetBounds(store).ok /\ GetOrigin(store).ok

\* import(db): the metadata is read, then the database is appended.
Import(store) ==
    /\ Len(databases) < MaxDatabases
    /\ IF MetadataOk(store)
       THEN /\ databases' = Append(databases, NewDatabase(store, Len(databases)))
            /\ ret' = Returned("import", store.name, TRUE)
       ELSE /\ databases' = databases
            /\ ret' = Threw("import", store.name)
    /\ UNCHANGED <<radius, language, enabledFilters, addressCache, queryCache,
                   entityQueryCounter, previousEntityQueryCounter, lastEnabled>>
    /\ UNCHANGED <<threadVars, pure>>

GetRadius ==
    /\ ret' = Returned("getRadius", <<>>, radius)
    /\ UNCHANGED <<engineVars, lastEnabled, threadVars, pure>>

SetRadius(r) ==
    /\ radius' = r
    /\ ret' = Returned("setRadius", r, TRUE)
    /\ UNCHANGED <<databases, language, enabledFilters, addressCache, queryCache,
                   entityQueryCounter, previousEntityQueryCounter, lastEnabled>>
    /\ UNCHANGED <<threadVars, pure>>

GetLanguage ==
    /\ ret' = Returned("getLanguage", <<>>, language)
    /\ UNCHANGED <<engineVars, lastEnabled, threadVars, pure>>

\* A setLanguage that drops only the least recently used address.
DroppedOldest(cache) == SubSeq(cache, 1, Len(cache) - 1)

\* An address cache left as it is.
KeptCache(cache) == cache

\* setLanguage: the address cache after the call.
AddressCacheAfterSetLanguage(cache) == CacheClear(cache)

SetLanguage(lang) ==
    /\ language' = lang
    /\ addressCache' = AddressCacheAfterSetLanguage(addressCache)
    /\ ret' = Returned("setLanguage", lang, TRUE)
    /\ UNCHANGED <<databases, radius, enabledFilters, queryCache,
                   entityQueryCounter, previousEntityQueryCounter, lastEnabled>>
    /\ UNCHANGED <<threadVars, pure>>

\* std::find over _enabledFilters: the first position of type, 0 for end().
FindFilter(filters, type) ==
    IF \E i \in 1..Len(filters) : filters[i] = type
    THEN CHOOSE i \in 1..Len(filters) :
            filters[i] = type /\ \A j \in 1..(i - 1) : filters[j] # type
    ELSE 0

\* A test that finds every type enabled.
AlwaysEnabled(filters, type) == TRUE

\* isFilterEnabled: std::find(...) != end().
FilterEnabled(filters, type) == FindFilter(filters, type) # 0

IsFilterEnabled(type) ==
    /\ ret' = Returned("isFilterEnabled", type, FilterEnabled(enabledFilters, type))
    /\ UNCHANGED <<engineVars, lastEnabled, threadVars, pure>>

\* Filters that are appended without a look at what is there.
AppendedUnchecked(filters, type, enabled) ==
    IF enabled THEN Append(filters, type)
    ELSE SelectSeq(filters, LAMBDA f : f # type)

\* setFilterEnabled: push_back when enabling an absent type, erase when
\* disabling a present one, nothing otherwise.
FiltersAfter(filters, type, enabled) ==
    LET it == FindFilter(filters, type)
    IN  IF enabled /\ it = 0 THEN Append(filters, type)
        ELSE IF ~enabled /\ it # 0
             THEN SubSeq(filters, 1, it - 1) \o SubSeq(filters, it + 1, Len(filters))
        ELSE filters

SetFilterEnabled(type, enabled) ==
    /\ enabledFilters' = FiltersAfter(enabledFilters, type, enabled)
    /\ lastEnabled' = [lastEnabled EXCEPT ![type] = enabled]
    /\ ret' = Void
    /\ UNCHANGED <<databases, radius, language, addressCache, queryCache,
                   entityQueryCounter, previousEntityQueryCounter>>
    /\ UNCHANGED <<threadVars, pure>>

\* findAddresses(lng, lat) with the indexes given by forced; given is what the
\* indexes were made to return.
FindAddressesWith(p, forced, given) ==
    \E e \in {FindAddresses(p, forced)} :
        /\ e.cnt <= MaxQueryCounter
        /\ addressCache' = e.ac
        /\ queryCache' = e.qc
        /\ entityQueryCounter' = e.cnt
        /\ previousEntityQueryCounter' = e.prev
        /\ ret' = IF e.threw THEN Threw("findAddresses", p)
                   ELSE [Returned("findAddresses", p, e.addresses) EXCEPT
                            !.index = given,
                            !.admitted = e.admitted,
                            !.hits = [query |-> e.qhits # {},
                                      address |-> e.areads # e.loads]]
        /\ UNCHANGED <<databases, radius, language, enabledFilters, lastEnabled>>
        /\ UNCHANGED <<threadVars, pure>>

FindAddressesOp(p) == FindAddressesWith(p, AllContract, <<>>)

\* The engine under imports, configuration changes and queries.
Next ==
    \/ \E store \in Stores : Import(store)
    \/ \E r \in Radii : SetRadius(Num(r))
    \/ \E lang \in Languages : SetLanguage(lang)
    \/ \E type \in QueryTypes, enabled \in BOOLEAN : SetFilterEnabled(type, enabled)
    \/ \E p \in Points : FindAddressesOp(p)

Spec == Init /\ [][Next]_vars

\* The configuration alone: the setters and the getters.
NextConfig ==
    \/ GetRadius
    \/ \E r \in Radii : SetRadius(Num(r))
    \/ GetLanguage
    \/ \E lang \in Languages : SetLanguage(lang)
    \/ \E type \in Types : IsFilterEnabled(type)
    \/ \E type \in Types, enabled \in BOOLEAN : SetFilterEnabled(type, enabled)

SpecConfig == Init /\ [][NextConfig]_vars

\* Queries against quad indexes that return whatever they are made to: two
\* candidates, each at a distance from 0 to just beyond the positive radius,
\* and a third at that radius.
AnyRadii == {-One, 0, 3 * One}
AnyPoints == {<<0, 0>>}
ForcedDists == {0, 2 * One, 2 * One + One \div 4, 3 * One + One \div 4}
ForcedResults ==
    {<< <<1, d1>>, <<EncodedId(1, 2), d2>>, <<EncodedId(2, 2), 3 * One>> >> :
        d1, d2 \in ForcedDists}

FindAddressesForced(p, results) ==
    FindAddressesWith(p, [i \in 1..Len(databases) |-> Forced(results)], results)

NextAnyIndex ==
    \/ \E store \in {StoreA, StoreB} : Import(store)
    \/ \E r \in AnyRadii : SetRadius(Num(r))
    \/ \E p \in AnyPoints, results \in ForcedResults : FindAddressesForced(p, results)

SpecAnyIndex == Init /\ [][NextAnyIndex]_vars


\* ----------------------------------------------------------------- threads
\* The calls the threads make.
Call(op, arg) == [op |-> op, arg |-> arg]
ThreadCalls ==
    {Call("import", StoreA), Call("getRadius", <<>>), Call("getLanguage", <<>>),
     Call("isFilterEnabled", "house"), Call("findAddresses", <<0, 0>>)}
    \cup {Call("setRadius", Num(r)) : r \in Radii}
    \cup {Call("setLanguage", lang) : lang \in Languages}
    \cup {Call("setFilterEnabled", <<"house", enabled>>) : enabled \in BOOLEAN}

\* A mutex that anyone may take at any time.
AlwaysAvailable(t) == TRUE

\* std::recursive_mutex: free, or held by the thread that asks.
MutexAvailable(t) == mutexOwner = NoThread \/ mutexOwner = t

\* What a step of findAddresses reads of the configuration.
Config == <<radius, language, enabledFilters>>

\* A thread calls an operation: it is about to construct the lock_guard.
Invoke(t, call) ==
    /\ pc[t] = "idle"
    /\ call.op = "import" => Len(databases) < MaxDatabases
    /\ pc' = [pc EXCEPT ![t] = "lock"]
    /\ local' = [local EXCEPT ![t] = [NoCall EXCEPT !.op = call.op, !.arg = call.arg, !.i = 1]]
    /\ UNCHANGED <<engineVars, mutexOwner, mutexCount, ret, lastEnabled, pure>>

\* std::lock_guard<std::recursive_mutex> lock(_mutex).
Lock(t) ==
    /\ pc[t] = "lock"
    /\ MutexAvailable(t)
    /\ mutexOwner' = t
    /\ mutexCount' = mutexCount + 1
    /\ pc' = [pc EXCEPT ![t] = IF local[t].op = "findAddresses" THEN "prefilter" ELSE "body"]
    /\ UNCHANGED <<engineVars, local, ret, lastEnabled, pure>>

\* The body of import, of a getter or of a setter; an exception from getBounds
\* or getOrigin ends import before the push_back.
Body(t) ==
    /\ pc[t] = "body"
    /\ pc' = [pc EXCEPT ![t] = "return"]
    /\ databases' = IF local[t].op = "import" /\ MetadataOk(local[t].arg)
                    THEN Append(databases, NewDatabase(local[t].arg, Len(databases)))
                    ELSE databases
    /\ radius' = IF local[t].op = "setRadius" THEN local[t].arg ELSE radius
    /\ language' = IF local[t].op = "setLanguage" THEN local[t].arg ELSE language
    /\ addressCache' = IF local[t].op = "setLanguage"
                       THEN AddressCacheAfterSetLanguage(addressCache)
                       ELSE addressCache
    /\ enabledFilters' = IF local[t].op = "setFilterEnabled"
                         THEN FiltersAfter(enabledFilters, local[t].arg[1], local[t].arg[2])
                         ELSE enabledFilters
    /\ lastEnabled' = IF local[t].op = "setFilterEnabled"
                      THEN [lastEnabled EXCEPT ![local[t].arg[1]] = local[t].arg[2]]
                      ELSE lastEnabled
    /\ local' = [local EXCEPT
                    ![t].result =
                        CASE local[t].op = "getRadius" -> radius
                          [] local[t].op = "getLanguage" -> language
                          [] local[t].op = "isFilterEnabled" ->
                                FilterEnabled(enabledFilters, local[t].arg)
                          [] OTHER -> TRUE,
                    ![t].threw = local[t].op = "import" /\ ~MetadataOk(local[t].arg)]
    /\ UNCHANGED <<queryCache, entityQueryCounter, previousEntityQueryCounter,
                   mutexOwner, mutexCount, ret, pure>>

\* findAddresses, the head of the loop over the databases: past the last one
\* the call returns; a database beyond the radius is skipped.
PrefilterStep(t) ==
    /\ pc[t] = "prefilter"
    /\ IF local[t].i > Len(databases)
       THEN /\ pc' = [pc EXCEPT ![t] = "return"]
            /\ local' = [local EXCEPT ![t].result = local[t].addresses]
            /\ UNCHANGED previousEntityQueryCounter
       ELSE IF PrefilterSkips(databases[local[t].i], local[t].arg, radius)
            THEN /\ local' = [local EXCEPT ![t].i = @ + 1, ![t].reads = @ \cup {Config}]
                 /\ UNCHANGED <<pc, previousEntityQueryCounter>>
       ELSE /\ previousEntityQueryCounter' = entityQueryCounter
            /\ pc' = [pc EXCEPT ![t] = "resolve"]
            /\ local' = [local EXCEPT ![t].reads = @ \cup {Config}]
    /\ UNCHANGED <<databases, radius, language, enabledFilters, addressCache, queryCache,
                   entityQueryCounter, mutexOwner, mutexCount, ret, lastEnabled, pure>>

\* findAddresses, index.findGeometries: the geometry-info resolutions.
ResolveStep(t) ==
    /\ pc[t] = "resolve"
    /\ \E found \in {FindGeometries(Members(addressCache, queryCache, entityQueryCounter,
                                            previousEntityQueryCounter),
                                    databases[local[t].i], local[t].arg, radius, Contract)} :
          /\ found.e.cnt <= MaxQueryCounter
          /\ queryCache' = found.e.qc
          /\ entityQueryCounter' = found.e.cnt
          /\ local' = [local EXCEPT ![t].results = found.results,
                                    ![t].threw = found.e.threw,
                                    ![t].reads = @ \cup {Config}]
          /\ pc' = [pc EXCEPT ![t] = IF found.e.threw THEN "return" ELSE "rank"]
    /\ UNCHANGED <<databases, radius, language, enabledFilters, addressCache,
                   previousEntityQueryCounter, mutexOwner, mutexCount, ret, lastEnabled, pure>>

\* findAddresses, the loop over the results: ranking and address loads.
RankStep(t) ==
    /\ pc[t] = "rank"
    /\ \E e \in {ResolveResults([Members(addressCache, queryCache, entityQueryCounter,
                                         previousEntityQueryCounter)
                                    EXCEPT !.addresses = local[t].addresses],
                                databases[local[t].i], local[t].results, 1)} :
          /\ addressCache' = e.ac
          /\ local' = [local EXCEPT ![t].addresses = e.addresses, ![t].results = <<>>,
                                    ![t].i = IF e.threw THEN @ ELSE @ + 1,
                                    ![t].threw = e.threw,
                                    ![t].reads = @ \cup {Config}]
          /\ pc' = [pc EXCEPT ![t] = IF e.threw THEN "return" ELSE "prefilter"]
    /\ UNCHANGED <<databases, radius, language, enabledFilters, queryCache,
                   entityQueryCounter, previousEntityQueryCounter, mutexOwner, mutexCount,
                   ret, lastEnabled, pure>>

\* The return or the exception leaving the operation: the lock_guard is
\* destroyed.
Return(t) ==
    /\ pc[t] = "return"
    /\ mutexCount' = mutexCount - 1
    /\ mutexOwner' = IF mutexCount = 1 THEN NoThread ELSE mutexOwner
    /\ pc' = [pc EXCEPT ![t] = "idle"]
    /\ local' = [local EXCEPT ![t] = NoCall]
    /\ UNCHANGED <<engineVars, ret, lastEnabled, pure>>

NextThreads ==
    \E t \in Threads :
        \/ \E call \in ThreadCalls : Invoke(t, call)
        \/ Lock(t)
        \/ Body(t)
        \/ PrefilterStep(t)
        \/ ResolveStep(t)
        \/ RankStep(t)
        \/ Return(t)

SpecThreads == Init /\ [][NextThreads]_vars

\* The threads with stores that fail: malformed metadata (C), a row that cannot
\* be decoded and an address that cannot be loaded (D).
FaultCalls ==
    {Call("import", store) : store \in {StoreA, StoreC, StoreD}}
    \cup {Call("findAddresses", p) : p \in Points}
    \cup {Call("setLanguage", "et")}

NextThreadFaults ==
    \E t \in Threads :
        \/ \E call \in FaultCalls : Invoke(t, call)
        \/ Lock(t)
        \/ Body(t)
        \/ PrefilterStep(t)
        \/ ResolveStep(t)
        \/ RankStep(t)
        \/ Return(t)

SpecThreadFaults == Init /\ [][NextThreadFaults]_vars

\* The engine, one caller, with the stores that fail.
NextFaults ==
    \/ \E store \in {StoreA, StoreC, StoreD} : Import(store)
    \/ \E lang \in Languages : SetLanguage(lang)
    \/ \E p \in Points : FindAddressesOp(p)

SpecFaults == Init /\ [][NextFaults]_vars

\* The engine, one caller, every operation, with a store that fails.
NextFrame ==
    \/ \E store \in {StoreA, StoreD} : Import(store)
    \/ GetRadius
    \/ \E r \in Radii : SetRadius(Num(r))
    \/ GetLanguage
    \/ \E lang \in Languages : SetLanguage(lang)
    \/ \E type \in QueryTypes : IsFilterEnabled(type)
    \/ \E type \in QueryTypes, enabled \in BOOLEAN : SetFilterEnabled(type, enabled)
    \/ \E p \in Points : FindAddressesOp(p)

SpecFrame == Init /\ [][NextFrame]_vars

\* findGeometryInfo's ids alone: a row of id r whose house numbers interpolate
\* to k addresses, and the same row without house numbers.
PackInputs ==
    {[pc |-> "pack", r |-> r, k |-> k, packed |-> 0, direct |-> 0] :
        r \in 0..(Pow2(IdBits) - 1), k \in 1..(Pow2(IdBits) - 1)}

InitPack == EngineInit /\ pure \in PackInputs

PackedRow(r, k) ==
    [id |-> r, quadindex |-> 1, type |-> "house", features |-> <<0, 0>>,
     housenumbers |-> HouseNumbers([i \in 1..k |-> <<i, 0>>])]

DirectRow(r) ==
    [id |-> r, quadindex |-> 1, type |-> "house", features |-> <<0, 0>>,
     housenumbers |-> Null]

Pack ==
    /\ pure.pc = "pack"
    /\ pure' = [pure EXCEPT
                  !.pc = "packed",
                  !.packed = RowGeomInfos(NewDatabase(StoreA, 0), PackedRow(pure.r, pure.k))[pure.k].id,
                  !.direct = RowGeomInfos(NewDatabase(StoreA, 0), DirectRow(pure.r))[1].id]
    /\ UNCHANGED <<engineVars, threadVars, ret, lastEnabled>>

SpecPack == InitPack /\ [][Pack]_vars

\* The bounding prefilter alone: a database with envelope [min, max], a query
\* point p, a radius r and an entity at e inside the envelope.
Grid == {-9, 0, 12}
PrefilterRadii == {-One, 0, 3 * One, 6 * One}

Inside(bounds, q) ==
    /\ bounds.min[1] <= q[1] /\ q[1] <= bounds.max[1]
    /\ bounds.min[2] <= q[2] /\ q[2] <= bounds.max[2]

PrefilterInputs ==
    {in \in {[pc |-> "prefilter", bounds |-> [present |-> TRUE, min |-> min, max |-> max],
              p |-> p, e |-> e, r |-> Num(r), dist |-> 0, skipped |-> FALSE, true |-> 0] :
                min \in Grid \X Grid, max \in Grid \X Grid, p \in Grid \X Grid,
                e \in Grid \X Grid, r \in PrefilterRadii} :
        /\ in.bounds.min[1] <= in.bounds.max[1]
        /\ in.bounds.min[2] <= in.bounds.max[2]
        /\ Inside(in.bounds, in.e)}

InitPrefilter == EngineInit /\ pure \in PrefilterInputs

Prefilter ==
    /\ pure.pc = "prefilter"
    /\ LET database == [NewDatabase(StoreA, 0) EXCEPT !.bounds = pure.bounds]
       IN  pure' = [pure EXCEPT
                      !.pc = "prefiltered",
                      !.dist = PrefilterDist(database, pure.p),
                      !.skipped = PrefilterSkips(database, pure.p, pure.r),
                      !.true = MetricDist(pure.p, pure.e)]
    /\ UNCHANGED <<engineVars, threadVars, ret, lastEnabled>>

SpecPrefilter == InitPrefilter /\ [][Prefilter]_vars

\* ----------------------------------------------------------------- Layer
\* Layer::setComponents (Layer.cpp).  The renderers are held through weak
\* pointers: a renderer that has been destroyed locks to none.
NoRenderer == "none"
Renderers == {"r1", "r2"}
EnvelopePools == {"none", "envelopes"}
TilePools == {"none", "tiles"}
OptionsRefs == {"none", "options"}
TouchHandlers == {"none", "touch"}

\* std::weak_ptr::lock: the renderer if it is alive, else none.
LockWeak(w, alive) == IF w \in alive THEN w ELSE NoRenderer

\* A layer as constructed, with every renderer alive.
NewLayer ==
    [pc |-> "layer", envelopeThreadPool |-> "none", tileThreadPool |-> "none",
     options |-> "none", mapRenderer |-> NoRenderer, touchHandler |-> "none",
     listener |-> FALSE, alive |-> Renderers,
     op |-> "none", arg |-> <<>>, outcome |-> "none", called |-> <<>>]

InitLayer == EngineInit /\ pure = NewLayer

\* A test that lets every renderer replace the attached one.
NeverConflicts(named, attached) == FALSE

\* setComponents: mapRenderer.lock() == _mapRenderer.lock().
SameRenderer(named, attached) == named = attached

\* setComponents: mapRenderer.lock() && _mapRenderer.lock().
Conflicts(named, attached) == named # NoRenderer /\ attached # NoRenderer

\* Layer::setComponents: returns when the named renderer is the attached one,
\* throws InvalidArgumentException when both are renderers, else assigns the
\* five members and registers or unregisters the data source listener.
SetComponents(envelopeThreadPool, tileThreadPool, options, mapRenderer, touchHandler) ==
    /\ pure.pc = "layer"
    /\ \E named \in {LockWeak(mapRenderer, pure.alive)},
          attached \in {LockWeak(pure.mapRenderer, pure.alive)},
          call \in {[pure EXCEPT !.op = "setComponents",
                                 !.arg = <<envelopeThreadPool, tileThreadPool, options,
                                           mapRenderer, touchHandler>>,
                                 !.called = <<>>]} :
          pure' = IF SameRenderer(named, attached)
                  THEN [call EXCEPT !.outcome = "returned"]
                  ELSE IF Conflicts(named, attached)
                  THEN [call EXCEPT !.outcome = "threw"]
                  ELSE [call EXCEPT !.envelopeThreadPool = envelopeThreadPool,
                                    !.tileThreadPool = tileThreadPool,
                                    !.mapRenderer = mapRenderer,
                                    !.touchHandler = touchHandler,
                                    !.options = options,
                                    !.listener = named # NoRenderer,
                                    !.called = IF named # NoRenderer
                                               THEN <<"register">> ELSE <<"unregister">>,
                                    !.outcome = "assigned"]
    /\ UNCHANGED <<engineVars, threadVars, ret, lastEnabled>>

\* The last shared pointer to a renderer is released: the weak pointers to it
\* expire.
Expire(r) ==
    /\ pure.pc = "layer"
    /\ r \in pure.alive
    /\ pure' = [pure EXCEPT !.alive = @ \ {r}, !.op = "expire", !.arg = r,
                            !.outcome = "none", !.called = <<>>]
    /\ UNCHANGED <<engineVars, threadVars, ret, lastEnabled>>

NextLayer ==
    \/ \E e \in EnvelopePools, t \in TilePools, o \in OptionsRefs,
          m \in Renderers \cup {NoRenderer}, h \in TouchHandlers : SetComponents(e, t, o, m, h)
    \/ \E r \in Renderers : Expire(r)

SpecLayer == InitLayer /\ [][NextLayer]_vars

\* ------------------------------------------------------------- properties
\* The threads inside an operation: past the lock and not yet returned.
Executing == {t \in Threads : pc[t] \notin {"idle", "lock"}}

\* C1: mutual exclusion.  At most one thread is inside a public operation; a
\* thread inside one holds the mutex until it returns; and all the steps of a
\* findAddresses call (prefilter, geometry-info resolution, ranking and address
\* load) read one radius, one language and one enabled-filter collection.
OneOperationAtATime ==
    /\ Cardinality(Executing) <= 1
    /\ \A t \in Executing : mutexOwner = t /\ mutexCount = 1
    /\ Executing = {} => mutexOwner = NoThread /\ mutexCount = 0
    /\ \A t \in Threads : Cardinality(local[t].reads) <= 1
    /\ \A t \in Executing : local[t].op = "findAddresses" => local[t].reads \subseteq {Config}

\* A findAddresses call that has visited a database and collected addresses is
\* between two steps while another thread waits for the mutex in setRadius.
OneOperationAtATimeWitness ==
    \E t, u \in Threads :
        /\ pc[t] = "prefilter"
        /\ local[t].i > 1
        /\ local[t].addresses # <<>>
        /\ pc[u] = "lock"
        /\ local[u].op = "setRadius"
        /\ local[u].arg # radius

\* The last call was findAddresses.
Found == ret.op = "findAddresses" /\ ~ret.threw

\* The cache keys of a database: its id and the separator in front.
KeyOf(database, key) ==
    /\ Len(key) > Len(database.id)
    /\ SubSeq(key, 1, Len(database.id) + 1) = database.id \o <<"_">>

\* C2: cache transparency.  Whatever calls came before it, a findAddresses
\* call returns the list of (address, rank) pairs that an engine with the same
\* databases, radius, language and filters and both caches empty returns at
\* the same point.
CacheTransparent ==
    Found => ret.result = FindAddressesCold(ret.arg).addresses

\* A query answered from both caches with a non-empty result.
CacheTransparentWitness ==
    /\ Found
    /\ ret.result # <<>>
    /\ ret.hits.query
    /\ ret.hits.address

\* C3: language invalidation.  Every entry of the address cache was loaded
\* with the configured language, every address findAddresses returns carries the
\* configured language, and an address served from the cache is one loaded
\* under that language.
LanguageInvalidated ==
    /\ \A i \in 1..Len(addressCache) : addressCache[i].value.language = language
    /\ \A p \in Points : \A e \in {FindAddresses(p, AllContract)} :
          \A i \in 1..Len(e.addresses) : e.addresses[i].address.language = language
    /\ Found => \A i \in 1..Len(ret.result) : ret.result[i].address.language = language

\* A query under a language set after construction, answered with addresses
\* that the cache now holds.
LanguageInvalidatedWitness ==
    /\ Found
    /\ language # DefaultLanguage
    /\ ret.result # <<>>
    /\ addressCache # <<>>
    /\ entityQueryCounter > 1

\* C4: radius boundary.  A findAddresses call made while the radius is 0
\* returns the empty list and raises nothing, whatever databases are registered,
\* whatever the caches hold and whatever candidates the quad indexes report.
ZeroRadiusEmpty ==
    Found /\ radius = Num(0) => ret.result = <<>>

\* A query at radius 0 over a bounded and an unbounded database with warm caches
\* whose indexes report a candidate at distance 0.
ZeroRadiusEmptyWitness ==
    /\ Found
    /\ radius = Num(0)
    /\ \E i \in 1..Len(databases) : databases[i].bounds.present
    /\ \E i \in 1..Len(databases) : ~databases[i].bounds.present
    /\ \E i \in 1..Len(ret.index) : ret.index[i][2] = 0
    /\ addressCache # <<>>
    /\ queryCache # <<>>

\* C5: a negative radius means no results.  A findAddresses call made while the
\* radius is negative returns the empty list, whatever the quad indexes return.
NegativeRadiusEmpty ==
    Found /\ FGt(Num(0), radius) => ret.result = <<>>

\* The ranks of the returned pairs are the floats 1.0f - float(distance)/radius
\* of the admitted index results, within (0, 1], and no admitted distance
\* reaches the radius.
RanksOfAdmitted ==
    /\ Len(ret.result) = Len(ret.admitted)
    /\ \A i \in 1..Len(ret.result) :
          /\ ret.result[i].rank = FSub(Num(One), FDiv(F32(ret.admitted[i][2]), radius))
          /\ ret.result[i].rank.k = "num"
          /\ 0 < ret.result[i].rank.v
          /\ ret.result[i].rank.v <= One
          /\ ret.admitted[i][2] < radius.v
    /\ \A i \in 1..Len(ret.admitted) : \E j \in 1..Len(ret.index) : ret.admitted[i] = ret.index[j]

\* C6: rank range and monotonicity.  For a positive radius every returned pair
\* has the float rank 1.0f - float(distance)/radius with 0 < rank <= 1, no
\* index result at or beyond the radius is returned, and of two returned matches
\* the nearer one never ranks lower.
RankRangeMonotone ==
    Found /\ FGt(radius, Num(0)) =>
        /\ RanksOfAdmitted
        /\ \A i, j \in 1..Len(ret.result) :
              ret.admitted[i][2] < ret.admitted[j][2]
                  => ~FGt(ret.result[j].rank, ret.result[i].rank)

\* A query at a positive radius that returned two matches at different distances
\* and was offered a candidate on the radius boundary.
RankRangeMonotoneWitness ==
    /\ Found
    /\ FGt(radius, Num(0))
    /\ \E i, j \in 1..Len(ret.result) :
          /\ ret.admitted[i][2] < ret.admitted[j][2]
          /\ FGt(ret.result[i].rank, ret.result[j].rank)
    /\ \E i \in 1..Len(ret.index) : ret.index[i][2] = radius.v

\* C6 as stated: the nearer of two returned matches ranks strictly higher.
RankStrictlyMonotone ==
    Found /\ FGt(radius, Num(0)) =>
        /\ RanksOfAdmitted
        /\ \A i, j \in 1..Len(ret.result) :
              ret.admitted[i][2] < ret.admitted[j][2]
                  => FGt(ret.result[i].rank, ret.result[j].rank)

\* The bounds envelope of database lies farther from p than the radius.
Beyond(database, p) ==
    /\ database.bounds.present
    /\ FGt(Num(MetricDist(p, NearestPoint(database.bounds, p))), radius)

\* C9: a prefilter skip has no side effects.  A database whose envelope lies
\* farther from the query point than the radius is not visited: no store query
\* and no query-cache probe carries its id, no address key of it is read or
\* loaded, and no returned address is from it through that visit; when every
\* database is skipped the call returns the empty list and leaves the counters
\* and both caches as they were.
SkipHasNoEffect ==
    /\ \A p \in Points :
          \A e \in {FindAddresses(p, AllContract)} :
          \A skipped \in {{i \in 1..Len(databases) : Beyond(databases[i], p)}} :
              /\ \A i \in skipped :
                    /\ i \notin e.visited
                    /\ \A q \in e.queries \cup e.qhits : q.db # databases[i].id
                    /\ \A k \in e.areads \cup e.loads : ~KeyOf(databases[i], k)
              /\ skipped = 1..Len(databases) =>
                    /\ e.addresses = <<>>
                    /\ e.cnt = entityQueryCounter
                    /\ e.prev = previousEntityQueryCounter
                    /\ e.ac = addressCache
                    /\ e.qc = queryCache
              /\ e.cnt = entityQueryCounter + Cardinality(e.queries)
              /\ \A q \in e.queries \cup e.qhits : \E i \in e.visited : q.db = databases[i].id
    /\ Found /\ (\A i \in 1..Len(databases) : Beyond(databases[i], ret.arg))
          => ret.result = <<>>

\* A query that skipped every database of an engine whose caches are warm.
SkipHasNoEffectWitness ==
    /\ Found
    /\ databases # <<>>
    /\ \A i \in 1..Len(databases) : Beyond(databases[i], ret.arg)
    /\ addressCache # <<>>
    /\ queryCache # <<>>
    /\ entityQueryCounter > 0

\* C7: filter idempotence.  The enabled-filter collection holds no type twice;
\* enabling an enabled type and disabling a type that is not enabled leave it
\* as it is; a type is enabled, and isFilterEnabled returns true for it,
\* exactly when the last setFilterEnabled call for it passed true.
FilterIdempotent ==
    /\ \A i, j \in 1..Len(enabledFilters) : i # j => enabledFilters[i] # enabledFilters[j]
    /\ \A type \in Types :
          /\ lastEnabled[type] => FiltersAfter(enabledFilters, type, TRUE) = enabledFilters
          /\ ~lastEnabled[type] => FiltersAfter(enabledFilters, type, FALSE) = enabledFilters
          /\ (\E i \in 1..Len(enabledFilters) : enabledFilters[i] = type) = lastEnabled[type]
    /\ ret.op = "isFilterEnabled" => ret.result = lastEnabled[ret.arg]

\* isFilterEnabled answered true while two types are enabled and a third,
\* which was never enabled or has been disabled, is not.
FilterIdempotentWitness ==
    /\ ret.op = "isFilterEnabled"
    /\ ret.result
    /\ Len(enabledFilters) = 2
    /\ enabledFilters[1] = "house"

\* C8: packed id round trip.  The id of the interpolated address at 1-based
\* index k of row id r is k * 2^IdBits + r (k << IdBits | r): its low half
\* is r, its high half is k, no other pair (r, k) gives the same id, and it is
\* no id of a directly stored entity, whose high half is 0.
PackedRoundTrip ==
    pure.pc = "packed" =>
        /\ pure.packed = pure.k * Pow2(IdBits) + pure.r
        /\ pure.packed % Pow2(IdBits) = pure.r
        /\ pure.packed \div Pow2(IdBits) = pure.k
        /\ \A other \in PackInputs :
              <<other.r, other.k>> # <<pure.r, pure.k>>
                  => RowGeomInfos(NewDatabase(StoreA, 0), PackedRow(other.r, other.k))[other.k].id
                        # pure.packed
        /\ pure.direct = pure.r
        /\ pure.direct \div Pow2(IdBits) = 0
        /\ \A r \in 0..(Pow2(IdBits) - 1) :
              RowGeomInfos(NewDatabase(StoreA, 0), DirectRow(r))[1].id # pure.packed

\* The largest index of the largest row id has been packed.
PackedRoundTripWitness ==
    /\ pure.pc = "packed"
    /\ pure.r = Pow2(IdBits) - 1
    /\ pure.k = Pow2(IdBits) - 1

\* The prefilter distance is a lower bound of the distance to the entity, and
\* a database with an entity within the radius is not skipped.
LowerBound ==
    /\ pure.dist <= pure.true
    /\ ~FGt(Num(pure.true), pure.r) => ~pure.skipped

\* C10: bounding prefilter soundness.  The distance the prefilter computes
\* from P to the envelope B is never greater than the distance from P to an
\* entity inside B, so a database holding an entity within the radius is not
\* skipped; a query point inside B is not prefiltered out when the radius is
\* not negative.
PrefilterSound ==
    pure.pc = "prefiltered" =>
        /\ LowerBound
        /\ Inside(pure.bounds, pure.p) /\ ~FGt(Num(0), pure.r) => ~pure.skipped

\* A query point outside the envelope, nearer to it than to the entity, the
\* entity within the radius.
PrefilterSoundWitness ==
    /\ pure.pc = "prefiltered"
    /\ 0 < pure.dist
    /\ pure.dist < pure.true
    /\ ~FGt(Num(pure.true), pure.r)
    /\ ~pure.skipped

\* C10 as stated: a query point inside B is not prefiltered out at any radius.
PrefilterNeverSkipsInside ==
    pure.pc = "prefiltered" =>
        /\ LowerBound
        /\ Inside(pure.bounds, pure.p) => ~pure.skipped

\* The registered databases have pairwise distinct ids, the n-th (from 0) the
\* id "db" followed by n.
RegistryIds ==
    /\ \A i, j \in 1..Len(databases) : i # j => databases[i].id # databases[j].id
    /\ \A i \in 1..Len(databases) : databases[i].id = <<"d", "b">> \o DecStr(i - 1)

\* A step leaves the registry as it is, or is a successful import that appends
\* one entry to it.
RegistryGrows ==
    \/ databases' = databases
    \/ /\ Len(databases') = Len(databases) + 1
       /\ SubSeq(databases', 1, Len(databases)) = databases
       /\ ret'.op = "import"
       /\ ~ret'.threw
       /\ ret'.result = TRUE

\* C11: registry identity.  The registered databases always have pairwise
\* distinct ids, the n-th successfully imported one the id "db" followed by
\* n; every step keeps the entries there are, with their id, bounds and origin,
\* in their order, and only a successful import adds one, exactly one, at the end.
RegistryIdentity == [](RegistryIds) /\ [][RegistryGrows]_vars

\* The same store registered twice, as two entries.
RegistryIdentityWitness ==
    /\ Len(databases) = 2
    /\ databases[1].db = databases[2].db
    /\ ret.op = "import"
    /\ ~ret.threw

\* A metadata row that is there with fewer than n fields or with a field
\* among the first n that is no number.
MalformedRow(row, n) ==
    /\ row.present
    /\ \/ Len(row.fields) < n
       \/ \E i \in 1..n : i <= Len(row.fields) /\ ~row.fields[i].ok

Malformed(store) == MalformedRow(store.bounds, 4) \/ MalformedRow(store.origin, 2)

\* Thread t takes the step that runs the body of an import.
ImportRuns(t) == pc[t] = "body" /\ local[t].op = "import" /\ pc'[t] = "return"

\* An import of a store with malformed metadata ends with an exception and
\* changes no member; an import of a well-formed store appends an entry with
\* the id "db" followed by the number of entries there were; a thread that
\* leaves an operation, by return or by exception, leaves the mutex free.
ImportStep ==
    \A t \in Threads :
        /\ ImportRuns(t) /\ Malformed(local[t].arg) =>
              /\ local'[t].threw
              /\ UNCHANGED <<databases, radius, language, enabledFilters, addressCache,
                             queryCache, entityQueryCounter, previousEntityQueryCounter>>
        /\ ImportRuns(t) /\ ~Malformed(local[t].arg) =>
              /\ ~local'[t].threw
              /\ Len(databases') = Len(databases) + 1
              /\ databases'[Len(databases')].id = <<"d", "b">> \o DecStr(Len(databases))
        /\ pc[t] = "return" /\ pc'[t] = "idle" =>
              mutexOwner' = NoThread /\ mutexCount' = 0

\* C12: a failed import registers nothing.  An import that fails on malformed
\* origin or bounds metadata surfaces the error, releases the lock and leaves
\* the database list, both caches, radius, language and filters as they were;
\* the next successful import gets the id the failed one would have got.
FailedImportRegistersNothing == [][ImportStep]_vars

\* An import has failed on an engine that holds a database and warm caches; the
\* thread is about to leave with the exception.
FailedImportRegistersNothingWitness ==
    \E t \in Threads :
        /\ pc[t] = "return"
        /\ local[t].op = "import"
        /\ local[t].threw
        /\ Len(databases) = 1
        /\ addressCache # <<>>
        /\ queryCache # <<>>
        /\ mutexOwner = t

\* The rows of a database that a query at p asks the store for: in a probed
\* cell and of an enabled type.
RowsInReach(database, p) ==
    {i \in 1..Len(database.db.entities) :
        /\ \E b \in 1..Len(QuadProbes(p, radius)) : \E c \in 1..Len(QuadProbes(p, radius)[b]) :
              QuadProbes(p, radius)[b][c] = database.db.entities[i].quadindex
        /\ enabledFilters # <<>> =>
              \E f \in 1..Len(enabledFilters) : enabledFilters[f] = database.db.entities[i].type}

\* A query at p meets a fault in database: it is not skipped and a row in reach
\* cannot be decoded, or an entity it would return cannot be loaded.
FaultAt(database, p) ==
    /\ ~Beyond(database, p)
    /\ \/ \E i \in RowsInReach(database, p) : database.db.entities[i].features = Corrupt
       \/ \E i \in RowsInReach(database, p) :
             /\ database.db.entities[i].id \in database.db.unloadable
             /\ database.db.entities[i].housenumbers.null
             /\ radius.k = "num"
             /\ radius.v > MetricDist(p, <<database.origin[1] + database.db.entities[i].features[1],
                                           database.origin[2] + database.db.entities[i].features[2]>>)

\* What the caller of thread t's operation gets when it is left.
Outcome(t) ==
    IF local[t].threw THEN [kind |-> "exception", value |-> <<>>]
    ELSE [kind |-> "value", value |-> local[t].result]

\* The threads inside findAddresses.
Finding == {t \in Threads : pc[t] \notin {"idle", "lock"} /\ local[t].op = "findAddresses"}

\* C13: fail-stop query.  A findAddresses call that has met a store or decode
\* error in a database is left with the exception and hands no list to its
\* caller, neither an empty one nor the results of the databases before; it
\* goes no further in the registry; and the thread that leaves holds the mutex
\* no longer than its return, so the other thread can go on.
FailStopQuery ==
    /\ \A t \in Finding :
          /\ ~local[t].threw => \A j \in 1..(local[t].i - 1) :
                j <= Len(databases) => ~FaultAt(databases[j], local[t].arg)
          /\ local[t].threw =>
                /\ pc[t] = "return"
                /\ Outcome(t).kind = "exception"
                /\ Outcome(t).value = <<>>
                /\ local[t].i <= Len(databases)
                /\ FaultAt(databases[local[t].i], local[t].arg)
          /\ pc[t] = "return" /\ ~local[t].threw =>
                /\ Outcome(t).kind = "value"
                /\ \A j \in 1..Len(databases) : ~FaultAt(databases[j], local[t].arg)
    /\ (\A t \in Threads : pc[t] \in {"idle", "lock"}) => mutexOwner = NoThread

\* A findAddresses call has collected addresses from the first database and
\* met a fault in the second; it is about to be left with the exception.
FailStopQueryWitness ==
    \E t \in Finding :
        /\ local[t].threw
        /\ local[t].addresses # <<>>
        /\ ~FaultAt(databases[1], local[t].arg)
        /\ Len(databases) = 2

\* The decoded rows of a store query, when every row can be decoded.
Decoded(database, sql) ==
    Flatten([i \in 1..Len(StoreQuery(database.db, sql)) |->
                RowGeomInfos(database, StoreQuery(database.db, sql)[i])])

\* A geometry-info entry holds the complete list of a query none of whose rows
\* fails; an address entry holds the address of an entity that can be loaded.
CompleteEntries ==
    /\ \A n \in 1..Len(queryCache) : \E i \in 1..Len(databases) :
          /\ queryCache[n].key.db = databases[i].id
          /\ \A r \in 1..Len(StoreQuery(databases[i].db, queryCache[n].key.sql)) :
                StoreQuery(databases[i].db, queryCache[n].key.sql)[r].features # Corrupt
          /\ queryCache[n].value = Decoded(databases[i], queryCache[n].key.sql)
    /\ \A n \in 1..Len(addressCache) : \E i \in 1..Len(databases) :
          /\ addressCache[n].key = AddrKey(databases[i], addressCache[n].value.id)
          /\ (addressCache[n].value.id % Pow2(IdBits)) \notin databases[i].db.unloadable
          /\ addressCache[n].value = LoadFromDB(databases[i], addressCache[n].value.id, language)

\* The same probe once more, on the engine as the failed call left it, goes
\* to the store again and fails again.
FailedProbeRepeats ==
    ret.op = "findAddresses" /\ ret.threw =>
        \E again \in {FindAddresses(ret.arg, AllContract)} :
            /\ again.threw
            /\ \/ again.failed # {}
               \/ \E k \in again.areads : CacheIndex(addressCache, k) = 0

\* C14: the caches hold only fully completed resolutions.  Every geometry-info
\* entry is the complete decoded list of a query with no failing row, every
\* address entry a fully loaded address; a resolution that fails leaves no
\* entry, so the same probe after it issues the store query again.
CachesHoldCompleted == CompleteEntries /\ FailedProbeRepeats

\* A findAddresses call failed on the second database after the first one's
\* resolutions were cached.
CachesHoldCompletedWitness ==
    /\ ret.op = "findAddresses"
    /\ ret.threw
    /\ queryCache # <<>>
    /\ addressCache # <<>>
    /\ Len(databases) = 2

\* The keys of a cache.
CacheKeys(cache) == {cache[n].key : n \in 1..Len(cache)}

\* Thread t runs the body of the operation op in this step.
Runs(t, op) == pc[t] = "body" /\ pc'[t] = "return" /\ local[t].op = op

\* A step of thread t outside the resolution of a findAddresses call.
OutsideResolution(t) == pc'[t] # pc[t] /\ pc[t] \notin {"resolve", "rank"}

\* What a step may do to the caches: setLanguage, whatever its argument,
\* empties the address cache and keeps the geometry-info cache; every other
\* step outside a resolution keeps both; a geometry-info entry goes only when
\* a new key is put into the full cache, and then it is the least recently
\* used one.
CacheScopeStep ==
    /\ \A t \in Threads :
          /\ Runs(t, "setLanguage") => addressCache' = <<>> /\ queryCache' = queryCache
          /\ OutsideResolution(t) /\ ~Runs(t, "setLanguage") =>
                addressCache' = addressCache /\ queryCache' = queryCache
    /\ \A n \in 1..Len(queryCache) :
          queryCache[n].key \notin CacheKeys(queryCache') =>
              /\ n = QueryCacheSize
              /\ Len(queryCache') = QueryCacheSize
              /\ queryCache'[1].key \notin CacheKeys(queryCache)
              /\ \E t \in Threads : pc[t] = "resolve"

\* C15: cache invalidation scope.  setLanguage with any argument, the current
\* language included, empties the whole address cache and leaves the
\* geometry-info cache unchanged; setRadius, setFilterEnabled, import and the
\* getters change neither cache; geometry-info entries disappear only through
\* capacity eviction.
CacheInvalidationScope == [][CacheScopeStep]_vars

\* setLanguage has run with the language the engine started with, while the
\* geometry-info cache held an entry: the address cache is empty, the entry
\* is still there.
CacheInvalidationScopeWitness ==
    \E t \in Threads :
        /\ pc[t] = "return"
        /\ local[t].op = "setLanguage"
        /\ local[t].arg = DefaultLanguage
        /\ language = DefaultLanguage
        /\ addressCache = <<>>
        /\ queryCache # <<>>
        /\ entityQueryCounter > 0

\* The store queries a findAddresses call at p issues on the engine as it is:
\* the geometry-info resolutions that miss the cache, those that end in an
\* error included.
Issued(p) == FindAddresses(p, AllContract).queries \cup FindAddresses(p, AllContract).failed

\* C16: the query counter.  It never decreases; a findAddresses call adds one
\* for each geometry-info resolution that misses the cache and issues a store
\* query, a query that ends in an error included, and nothing for a cache hit;
\* no other operation changes it.
QueryCounterCountsIssued ==
    [][/\ entityQueryCounter' >= entityQueryCounter
       /\ ret'.op # "findAddresses" => entityQueryCounter' = entityQueryCounter
       /\ ret'.op = "findAddresses" =>
             entityQueryCounter' = entityQueryCounter + Cardinality(Issued(ret'.arg))]_vars

\* Every geometry-info key a probe at p needs is in the cache; every address
\* key too.
QueriesCached(p) == FindAddressesCold(p).queries \subseteq CacheKeys(queryCache)
AddressesCached(p) == FindAddressesCold(p).areads \subseteq CacheKeys(addressCache)

\* The probe of the last call, made once more on the engine as that call
\* left it.
Again == FindAddresses(ret.arg, AllContract)

Kept == SelectSeq(ret.index, LAMBDA r : FGt(RankOf(r[2], radius), Num(0)))

\* What one database contributes to the last call: nothing when it is skipped,
\* else the kept index results as (address, rank) pairs, in index order.
Contribution(database) ==
    IF Beyond(database, ret.arg) THEN <<>>
    ELSE [k \in 1..Len(Kept) |->
            [address |-> LoadFromDB(database, Kept[k][1], language),
             rank |-> RankOf(Kept[k][2], radius)]]

\* C18: result order.  The list findAddresses returns is the concatenation,
\* in registration order, of what each database that is not skipped
\* contributes: the pairs of the index results in the order the index
\* returned them, those of non-positive rank left out.  Nothing is sorted by
\* rank and no later database's results come before an earlier one's.
ResultOrder ==
    Found => ret.result = Flatten([i \in 1..Len(databases) |-> Contribution(databases[i])])

\* Two databases contributed two addresses each, an index result of rank 0
\* was left out, and the ranks of the list go up, down and up again.
ResultOrderWitness ==
    /\ Found
    /\ Len(databases) = 2
    /\ Len(ret.result) = 4
    /\ Len(ret.index) = 3
    /\ ret.result[1].rank.v < ret.result[2].rank.v
    /\ ret.result[3].rank.v < ret.result[2].rank.v
    /\ ret.result[3].rank.v < ret.result[4].rank.v
    /\ ret.result[2].address.origin # ret.result[3].address.origin

\* The configuration of the engine.
Configuration == <<databases, radius, language, enabledFilters>>

\* The operations that only read.
Getters == {"getRadius", "getLanguage", "isFilterEnabled"}

\* What a step of an operation may change and what a getter hands back:
\* findAddresses, returning or throwing, keeps the configuration; a getter
\* keeps the whole engine and returns the member as it is; the radius and the
\* language are written only by their setters, with the argument of the call,
\* and the registry only by import.
FrameStep ==
    /\ ret'.op = "findAddresses" => Configuration' = Configuration
    /\ ret'.op \in Getters =>
          /\ Configuration' = Configuration
          /\ <<addressCache, queryCache>>' = <<addressCache, queryCache>>
          /\ <<entityQueryCounter, previousEntityQueryCounter>>' =
                <<entityQueryCounter, previousEntityQueryCounter>>
          /\ ~ret'.threw
    /\ ret'.op = "getRadius" => ret'.result = radius
    /\ ret'.op = "getLanguage" => ret'.result = language
    /\ ret'.op = "isFilterEnabled" => ret'.result = lastEnabled[ret'.arg]
    /\ ret'.op = "setRadius" => radius' = ret'.arg
    /\ ret'.op = "setLanguage" => language' = ret'.arg
    /\ radius' # radius => ret'.op = "setRadius"
    /\ language' # language => ret'.op = "setLanguage"
    /\ databases' # databases => ret'.op = "import"

\* C19: findAddresses does not change the configuration.  For every input and
\* outcome, a result or an error, it leaves the database list, the radius, the
\* language and the enabled filters as they were; the getters change nothing
\* and return the value the most recent setter wrote: the member no operation
\* but the setter writes.
FindAddressesKeepsConfiguration == [][FrameStep]_vars

\* A findAddresses call ended with an error after it changed a cache, under a
\* configuration no longer the initial one.
FindAddressesKeepsConfigurationWitness ==
    /\ ret.op = "findAddresses"
    /\ ret.threw
    /\ addressCache # <<>>
    /\ queryCache # <<>>
    /\ language # DefaultLanguage
    /\ enabledFilters # <<>>
    /\ Len(databases) = 2

\* The components of a layer.
Components(layer) ==
    <<layer.envelopeThreadPool, layer.tileThreadPool, layer.options, layer.mapRenderer,
      layer.touchHandler>>

\* The renderer a layer is attached to: the one its weak pointer locks to.
Attached(layer) == LockWeak(layer.mapRenderer, layer.alive)

\* What a setComponents call may do.  The attached renderer changes only
\* between none and a renderer; naming the attached renderer, or none when
\* none is attached, changes no component and makes no listener call; naming
\* another renderer while one is attached throws and changes no component;
\* the listener is registered in the calls that attach, unregistered in the
\* calls that detach, and in no other.
LayerStep ==
    pure'.op = "setComponents" =>
        \E named \in {LockWeak(pure'.arg[4], pure.alive)} :
            /\ Attached(pure') # Attached(pure) =>
                  Attached(pure) = NoRenderer \/ Attached(pure') = NoRenderer
            /\ named = Attached(pure) =>
                  /\ Components(pure') = Components(pure)
                  /\ pure'.called = <<>>
                  /\ pure'.listener = pure.listener
                  /\ pure'.outcome = "returned"
            /\ named # Attached(pure) /\ named # NoRenderer /\ Attached(pure) # NoRenderer =>
                  /\ pure'.outcome = "threw"
                  /\ Components(pure') = Components(pure)
                  /\ pure'.called = <<>>
                  /\ pure'.listener = pure.listener
            /\ pure'.called = <<"register">> <=>
                  Attached(pure) = NoRenderer /\ Attached(pure') # NoRenderer
            /\ pure'.called = <<"unregister">> <=>
                  Attached(pure) # NoRenderer /\ Attached(pure') = NoRenderer
            /\ pure'.called # <<>> => pure'.listener = (pure'.called = <<"register">>)
            /\ pure'.outcome = "threw" => named # NoRenderer /\ Attached(pure) # NoRenderer

\* C20: the layer attachment protocol.  Over any sequence of setComponents
\* calls the renderer of a layer goes only from none to a renderer or from a
\* renderer to none; a call that names the attached renderer, or none when
\* none is attached, returns and changes nothing; a call that names another
\* renderer while one is attached throws InvalidArgumentException and leaves
\* the thread pools, the options, the renderer and the touch handler as they
\* were; the data source listener is registered exactly in the attaching
\* calls and unregistered exactly in the detaching ones.
LayerAttachmentProtocol == [][LayerStep]_vars

\* A call named the other renderer while the layer was attached and threw:
\* the layer still holds the components and the listener of its attachment.
LayerAttachmentProtocolWitness ==
    /\ pure.pc = "layer"
    /\ pure.op = "setComponents"
    /\ pure.outcome = "threw"
    /\ Attached(pure) = "r1"
    /\ pure.arg[4] = "r2"
    /\ pure.listener
    /\ pure.envelopeThreadPool # pure.arg[1]
    /\ pure.touchHandler # pure.arg[5]

=============================================================================
